---- MODULE Spec2Model ----
(***************************************************************************)
(* NUSGPA grade tracker (src/app.py): the session state of the Streamlit   *)
(* script, its callbacks and the passes of the script (file upload, table  *)
(* editor write-back, analytics), and the GPA aggregation computed on      *)
(* every pass.                                                             *)
(*                                                                         *)
(* Numbers.  Every grade point of grade_map is a multiple of 0.5, so grade *)
(* points and quality points are kept DOUBLED (A = 10, B+ = 8, ...) and    *)
(* credits are integers (the Credits widget steps by 1.0).  A GPA is the   *)
(* float quotient points / credits; it is kept as the exact fraction       *)
(* [k |-> "fin", n |-> doubled points, d |-> credits] (value n / (2 d)),   *)
(* or as "inf" / "-inf" / "nan", the results pandas gives for a zero       *)
(* denominator.  The thresholds 4.5, 4.0, 3.5, 3.0, 2.0 are exact floats   *)
(* and float division is monotone, so comparing the exact fraction with a  *)
(* threshold gives what the float comparison gives.                        *)
(*                                                                         *)
(* Cells.  A DataFrame cell is tagged with its Python type: Str, Num,      *)
(* Bool or NaN.  A DataFrame is [cols |-> sequence of column names,        *)
(* rows |-> sequence of functions from the column names to cells].         *)
(*                                                                         *)
(* Passes.  Streamlit runs a widget's callback and then the script from    *)
(* the top; st.rerun() abandons the pass and starts another.  pc is "idle" *)
(* between passes, when the next user action is taken, and otherwise names *)
(* the section of the script that runs next: "upload" (lines 134-155),     *)
(* "editor" (lines 211-229), "analytics" (lines 231-358).                  *)
(*                                                                         *)
(* Left out: the form's own widget values (they are the inputs of Add),    *)
(* the NUSMods catalogue requests, rows appended in the table widget, and  *)
(* the rounding of the displayed table.                                    *)
(***************************************************************************)
EXTENDS Integers, Sequences, FiniteSets, TLC

VARIABLES
  courses,          \* st.session_state.courses
  last_loaded_hash, \* st.session_state.last_loaded_hash ("absent" before it is set)
  uploader_id,      \* st.session_state.uploader_id
  uploaded_file,    \* the file held by the file_uploader widget, with the widget key it was given to
  editor,           \* the pending edit of the data_editor widget
  pc,               \* position of the script pass
  message,          \* what the upload section of the pass reported (st.error, st.success)
  shown             \* what the last analytics section put on screen

vars == <<courses, last_loaded_hash, uploader_id, uploaded_file, editor, pc, message, shown>>

\* ------------------------------------------------------------------ bounds

MaxRows == 2
MaxResets == 1
MaxAggRows == 2

\* ------------------------------------------------------------------- cells

Str(s) == [k |-> "str", s |-> s]
Num(n) == [k |-> "num", n |-> n]
Bool(b) == [k |-> "bool", b |-> b]
NaN == [k |-> "nan"]

Range(s) == {s[i] : i \in DOMAIN s}

\* ------------------------------------------------- section 1: configuration

grade_map ==
  [g \in {"A+", "A", "A-", "B+", "B", "B-", "C+", "C", "D+", "D", "F", "CS", "CU", "IP"} |->
     CASE g = "A+" -> 10 [] g = "A" -> 10 [] g = "A-" -> 9
       [] g = "B+" -> 8 [] g = "B" -> 7 [] g = "B-" -> 6
       [] g = "C+" -> 5 [] g = "C" -> 4 [] g = "D+" -> 3
       [] g = "D" -> 2 [] g = "F" -> 0
       [] g = "CS" -> 0 [] g = "CU" -> 0 [] g = "IP" -> 0]

sem_mapping ==
  [l \in {"Y1 S1", "Y1 S2", "Y2 S1", "Y2 S2", "Y3 S1", "Y3 S2", "Y4 S1", "Y4 S2",
          "Y5 S1", "Y5 S2", "Y6 S1", "Y6 S2", "Special Term"} |->
     CASE l = "Y1 S1" -> 1 [] l = "Y1 S2" -> 2 [] l = "Y2 S1" -> 3 [] l = "Y2 S2" -> 4
       [] l = "Y3 S1" -> 5 [] l = "Y3 S2" -> 6 [] l = "Y4 S1" -> 7 [] l = "Y4 S2" -> 8
       [] l = "Y5 S1" -> 9 [] l = "Y5 S2" -> 10 [] l = "Y6 S1" -> 11 [] l = "Y6 S2" -> 12
       [] l = "Special Term" -> 99]

FiveColumns == <<"Course", "Semester", "Grade", "Credits", "SU_Opt_Out">>

EmptyCourses == [cols |-> FiveColumns, rows |-> <<>>]

\* ---------------------------------------------------- section 7: analytics

NON_GPA_GRADES == {"CS", "CU", "IP"}

\* df["Grade"].map(grade_map): the doubled grade point, or NaN for a grade
\* that is no key of grade_map.
HasGradeValue(row) == row.Grade.k = "str" /\ row.Grade.s \in DOMAIN grade_map

GradeValue(row) == grade_map[row.Grade.s]

InNonGpa(row) == row.Grade.k = "str" /\ row.Grade.s \in NON_GPA_GRADES

Calc_Credits(row) ==
  IF row.SU_Opt_Out.b \/ InNonGpa(row) THEN 0 ELSE row.Credits.n

\* Grade Value * Calc_Credits; a NaN product is skipped by .sum(), which is
\* what adding 0 does.
Quality_Points(row) ==
  IF HasGradeValue(row) THEN GradeValue(row) * Calc_Credits(row) ELSE 0

RECURSIVE SumOver(_, _, _)
SumOver(rows, sem, which) ==
  IF rows = <<>> THEN 0
  ELSE LET r == Head(rows)
           v == IF r.Semester.n # sem THEN 0
                ELSE CASE which = "credits" -> Calc_Credits(r)
                       [] which = "points" -> Quality_Points(r)
                       [] which = "mods" -> 1
       IN v + SumOver(Tail(rows), sem, which)

\* The group keys of df.groupby("Semester"), ascending.
RECURSIVE SortAsc(_)
SortAsc(S) ==
  IF S = {} THEN <<>>
  ELSE LET m == CHOOSE x \in S : \A y \in S : x <= y
       IN <<m>> \o SortAsc(S \ {m})

GroupKeys(rows) == SortAsc({rows[i].Semester.n : i \in DOMAIN rows})

\* Series division: x / 0 is inf or -inf, 0 / 0 is NaN.
Divide(points, credits) ==
  IF credits # 0 THEN [k |-> "fin", n |-> points, d |-> credits]
  ELSE IF points > 0 THEN [k |-> "inf"]
  ELSE IF points < 0 THEN [k |-> "-inf"]
  ELSE [k |-> "nan"]

\* .fillna(0)
FillNa0(g) == IF g.k = "nan" THEN [k |-> "fin", n |-> 0, d |-> 1] ELSE g

RECURSIVE CumSum(_, _, _)
CumSum(terms, cp, cc) ==
  IF terms = <<>> THEN <<>>
  ELSE LET t == Head(terms)
           p == cp + t.TermPoints
           c == cc + t.TermCredits
       IN <<[Semester |-> t.Semester, Mods |-> t.Mods,
             TermCredits |-> t.TermCredits, TermPoints |-> t.TermPoints,
             SemGPA |-> FillNa0(Divide(t.TermPoints, t.TermCredits)),
             CumPoints |-> p, CumCredits |-> c,
             CumulativeGPA |-> FillNa0(Divide(p, c))]>>
          \o CumSum(Tail(terms), p, c)

Summary(rows) ==
  LET keys == GroupKeys(rows)
      terms == [i \in DOMAIN keys |->
                  [Semester |-> keys[i],
                   TermCredits |-> SumOver(rows, keys[i], "credits"),
                   TermPoints |-> SumOver(rows, keys[i], "points"),
                   Mods |-> SumOver(rows, keys[i], "mods")]]
  IN CumSum(terms, 0, 0)

\* current_gpa >= threshold, the threshold doubled (4.5 is 9).
GpaAtLeast(g, t2) ==
  CASE g.k = "inf" -> TRUE
    [] g.k = "-inf" -> FALSE
    [] g.k = "fin" -> IF g.d > 0 THEN g.n >= t2 * g.d ELSE g.n <= t2 * g.d

\* Mutant: the thresholds taken as exclusive bounds.
GpaAbove(g, t2) ==
  CASE g.k = "inf" -> TRUE
    [] g.k = "-inf" -> FALSE
    [] g.k = "fin" -> IF g.d > 0 THEN g.n > t2 * g.d ELSE g.n < t2 * g.d

ClassLabelStrict(current_gpa) ==
  IF GpaAbove(current_gpa, 9) THEN "First Class Honours"
  ELSE IF GpaAbove(current_gpa, 8) THEN "Second Class (Upper)"
  ELSE IF GpaAbove(current_gpa, 7) THEN "Second Class (Lower)"
  ELSE IF GpaAbove(current_gpa, 6) THEN "Third Class"
  ELSE IF GpaAbove(current_gpa, 4) THEN "Pass"
  ELSE "Below Graduation Req"

ClassLabel(current_gpa) ==
  IF GpaAtLeast(current_gpa, 9) THEN "First Class Honours"
  ELSE IF GpaAtLeast(current_gpa, 8) THEN "Second Class (Upper)"
  ELSE IF GpaAtLeast(current_gpa, 7) THEN "Second Class (Lower)"
  ELSE IF GpaAtLeast(current_gpa, 6) THEN "Third Class"
  ELSE IF GpaAtLeast(current_gpa, 4) THEN "Pass"
  ELSE "Below Graduation Req"

\* Mutant: a grade of exactly 2.0 points no longer counts as satisfactory.
get_chart_grade_strict(row) ==
  IF row.SU_Opt_Out.b
  THEN LET original_val == IF HasGradeValue(row) THEN GradeValue(row) ELSE 0
       IN IF original_val > 4 THEN Str("CS") ELSE Str("CU")
  ELSE row.Grade

get_chart_grade(row) ==
  IF row.SU_Opt_Out.b
  THEN LET original_val == IF HasGradeValue(row) THEN GradeValue(row) ELSE 0
       IN IF original_val >= 4 THEN Str("CS") ELSE Str("CU")
  ELSE row.Grade

\* chart_df["Chart_Grade"].value_counts(): each display grade with its count.
ValueCounts(rows) ==
  LET shownGrades == {get_chart_grade(rows[i]) : i \in DOMAIN rows}
  IN [g \in shownGrades |-> Cardinality({i \in DOMAIN rows : get_chart_grade(rows[i]) = g})]

Welcome == [kind |-> "welcome"]

Report(df) ==
  LET summary == Summary(df.rows)
      current_gpa == summary[Len(summary)].CumulativeGPA
  IN [kind |-> "report", summary |-> summary, current_gpa |-> current_gpa,
      class_label |-> ClassLabel(current_gpa), dist |-> ValueCounts(df.rows)]

Analytics ==
  /\ pc = "analytics"
  /\ \/ /\ courses.rows # <<>>
        /\ shown' = Report(courses)
     \/ /\ courses.rows = <<>>
        /\ shown' = Welcome
  /\ pc' = "idle"
  /\ UNCHANGED <<courses, last_loaded_hash, uploader_id, uploaded_file, editor, message>>

\* ------------------------------------------------ CSV text (pandas defaults)

\* A CSV file: the header line and the data lines, every cell a text.
\* pd.read_csv reads these texts as missing values.
NA_VALUES ==
  {"", "#N/A", "#N/A N/A", "#NA", "-1.#IND", "-1.#QNAN", "-NaN", "-nan", "1.#IND",
   "1.#QNAN", "<NA>", "N/A", "NA", "NULL", "NaN", "None", "n/a", "nan", "null"}

NumRange == -9 .. 99

IsNumText(s) == \E n \in NumRange : ToString(n) = s

ParseNum(s) == CHOOSE n \in NumRange : ToString(n) = s

\* The type read_csv infers for column j: numeric when every present cell is
\* a number, boolean when every present cell is True or False, text otherwise.
ColumnKind(f, j) ==
  LET vals == {f.lines[i][j] : i \in DOMAIN f.lines} \ NA_VALUES
  IN IF \A v \in vals : IsNumText(v) THEN "num"
     ELSE IF vals \subseteq {"True", "False"} THEN "bool"
     ELSE "str"

ParseCell(kind, s) ==
  IF s \in NA_VALUES THEN NaN
  ELSE CASE kind = "num" -> Num(ParseNum(s))
         [] kind = "bool" -> Bool(s = "True")
         [] kind = "str" -> Str(s)

ColumnIndex(f, c) == CHOOSE j \in DOMAIN f.header : f.header[j] = c

\* pd.read_csv raises on a file with no header line (EmptyDataError).
ReadCsvRaises(f) == f.header = <<>>

read_csv(f) ==
  [cols |-> f.header,
   rows |-> [i \in DOMAIN f.lines |->
               [c \in Range(f.header) |->
                  ParseCell(ColumnKind(f, ColumnIndex(f, c)),
                            f.lines[i][ColumnIndex(f, c)])]]]

\* df["SU_Opt_Out"].astype(bool): bool(x) of every cell.
AsBool(c) ==
  CASE c.k = "bool" -> c.b
    [] c.k = "num" -> c.n # 0
    [] c.k = "str" -> TRUE
    [] c.k = "nan" -> TRUE

AsTypeBool(df) ==
  [cols |-> df.cols,
   rows |-> [i \in DOMAIN df.rows |->
               [c \in Range(df.cols) |->
                  IF c = "SU_Opt_Out" THEN Bool(AsBool(df.rows[i][c])) ELSE df.rows[i][c]]]]

FormatCell(c) ==
  CASE c.k = "str" -> c.s
    [] c.k = "num" -> ToString(c.n)
    [] c.k = "bool" -> IF c.b THEN "True" ELSE "False"
    [] c.k = "nan" -> ""

\* courses.to_csv(index=False)
to_csv(df) ==
  [header |-> df.cols,
   lines |-> [i \in DOMAIN df.rows |->
                [j \in DOMAIN df.cols |-> FormatCell(df.rows[i][df.cols[j]])]]]

\* hash(uploaded_file.getvalue()): equal contents, equal fingerprints.
Fingerprint(f) == [t |-> "hash", of |-> f]

\* -------------------------------------------------------- the user's inputs

NoFile == [t |-> "none"]
NoEdit == [t |-> "none"]
NoSelection == "None"

CsvHistory ==
  [header |-> FiveColumns,
   lines |-> << <<"CS1010", "1", "A", "4", "False">>,
                <<"MA1521", "1", "B+", "4", "False">> >>]

CsvNoCredits ==
  [header |-> <<"Course", "Semester", "Grade", "SU_Opt_Out">>,
   lines |-> << <<"CS1010", "1", "A", "False">> >>]

CsvExtraColumn ==
  [header |-> FiveColumns \o <<"Notes">>,
   lines |-> << <<"CS2040", "2", "B", "4", "True", "retake">> >>]

CsvNegativeCredits ==
  [header |-> FiveColumns,
   lines |-> << <<"CS1010", "1", "A", "4", "False">>,
                <<"MA1521", "1", "F", "-4", "False">> >>]

CsvUnknownGrade ==
  [header |-> FiveColumns,
   lines |-> << <<"CS1010", "1", "Z", "4", "False">> >>]

CsvEmpty == [header |-> <<>>, lines |-> <<>>]

Files ==
  {CsvHistory, CsvNoCredits, CsvExtraColumn, CsvNegativeCredits, CsvUnknownGrade, CsvEmpty}

NameChoices == {"", "NA"}
\* The catalogue search is not part of the model: nothing is ever selected in it.
SearchChoices == {NoSelection}
SemesterChoices == {"Special Term"}
GradeChoices == {"A"}
CreditsChoices == {4}
EditorCredits == {-4}

\* ------------------------------------------------------ section 3: state

Init ==
  /\ courses = EmptyCourses
  /\ last_loaded_hash = [t |-> "absent"]
  /\ uploader_id = 0
  /\ uploaded_file = [key |-> 0, file |-> NoFile]
  /\ editor = NoEdit
  /\ pc = "upload"
  /\ message = "none"
  /\ shown = [kind |-> "blank"]

\* ---------------------------------------------------- section 4: callbacks

add_course_callback(name, search_selection, sem_label, grade, credits, su) ==
  LET sem_int == sem_mapping[sem_label]
      final_name == IF name # "" THEN name
                    ELSE IF search_selection # NoSelection THEN search_selection
                    ELSE "Unknown Course"
      new_row == [Course |-> Str(final_name), Semester |-> Num(sem_int),
                  Grade |-> Str(grade), Credits |-> Num(credits), SU_Opt_Out |-> Bool(su)]
      cols == courses.cols
              \o SelectSeq(FiveColumns, LAMBDA c : c \notin Range(courses.cols))
      fill(r) == [c \in Range(cols) |-> IF c \in DOMAIN r THEN r[c] ELSE NaN]
  IN courses' = [cols |-> cols,
                 rows |-> [i \in DOMAIN courses.rows |-> fill(courses.rows[i])]
                          \o <<fill(new_row)>>]

ClickAdd ==
  /\ pc = "idle"
  /\ Len(courses.rows) < MaxRows
  /\ \E name \in NameChoices, sel \in SearchChoices, sem \in SemesterChoices,
        grade \in GradeChoices, credits \in CreditsChoices, su \in BOOLEAN :
        add_course_callback(name, sel, sem, grade, credits, su)
  /\ pc' = "upload"
  /\ UNCHANGED <<last_loaded_hash, uploader_id, uploaded_file, editor, message, shown>>

reset_app_callback ==
  /\ courses' = EmptyCourses
  /\ last_loaded_hash' = [t |-> "None"]
  /\ uploader_id' = uploader_id + 1

ClickReset ==
  /\ pc = "idle"
  /\ uploader_id < MaxResets
  /\ reset_app_callback
  /\ pc' = "upload"
  /\ UNCHANGED <<uploaded_file, editor, message, shown>>

\* ------------------------------------------------- the widgets' user input

SelectFile ==
  /\ pc = "idle"
  /\ \E f \in Files : uploaded_file' = [key |-> uploader_id, file |-> f]
  /\ pc' = "upload"
  /\ UNCHANGED <<courses, last_loaded_hash, uploader_id, editor, message, shown>>

\* The file the uploader created under uploader_<uploader_id> holds: a new
\* key makes a new, empty widget.
CurrentFile == IF uploaded_file.key = uploader_id THEN uploaded_file.file ELSE NoFile

RemoveFile ==
  /\ pc = "idle"
  /\ CurrentFile # NoFile
  /\ uploaded_file' = [key |-> uploader_id, file |-> NoFile]
  /\ pc' = "upload"
  /\ UNCHANGED <<courses, last_loaded_hash, uploader_id, editor, message, shown>>

\* An edit in the table: a row deleted, or a Credits cell changed (the Credits
\* column has no minimum).
TableEdit ==
  /\ pc = "idle"
  /\ \E i \in DOMAIN courses.rows :
        \/ editor' = [t |-> "del", i |-> i]
        \/ \E v \in EditorCredits : editor' = [t |-> "set", i |-> i, col |-> "Credits", v |-> Num(v)]
  /\ pc' = "upload"
  /\ UNCHANGED <<courses, last_loaded_hash, uploader_id, uploaded_file, message, shown>>

\* ------------------------------------------- section 5: file upload logic

REQUIRED_COLUMNS == {"Course", "Semester", "Grade", "Credits", "SU_Opt_Out"}

\* Mutant: a file with a missing column empties the ledger before the error.
UploadStepClears ==
  /\ pc = "upload"
  /\ LET file == CurrentFile
         file_fingerprint == Fingerprint(file)
     IN IF file # NoFile /\ last_loaded_hash # file_fingerprint
        THEN IF ReadCsvRaises(file)
             THEN /\ message' = "Error"
                  /\ pc' = "editor"
                  /\ UNCHANGED <<courses, last_loaded_hash>>
             ELSE IF ~ (REQUIRED_COLUMNS \subseteq Range(read_csv(file).cols))
             THEN /\ message' = "Invalid File! Missing columns"
                  /\ pc' = "editor"
                  /\ courses' = EmptyCourses
                  /\ UNCHANGED last_loaded_hash
             ELSE /\ courses' = AsTypeBool(read_csv(file))
                  /\ last_loaded_hash' = file_fingerprint
                  /\ message' = "Loaded!"
                  /\ pc' = "upload"
        ELSE /\ message' = "none"
             /\ pc' = "editor"
             /\ UNCHANGED <<courses, last_loaded_hash>>
  /\ UNCHANGED <<uploader_id, uploaded_file, editor, shown>>

\* Mutant: a loaded file's fingerprint is not recorded.
UploadStepNoRecord ==
  /\ pc = "upload"
  /\ LET file == CurrentFile
         file_fingerprint == Fingerprint(file)
     IN IF file # NoFile /\ last_loaded_hash # file_fingerprint
        THEN IF ReadCsvRaises(file)
             THEN /\ message' = "Error"
                  /\ pc' = "editor"
                  /\ UNCHANGED <<courses, last_loaded_hash>>
             ELSE IF ~ (REQUIRED_COLUMNS \subseteq Range(read_csv(file).cols))
             THEN /\ message' = "Invalid File! Missing columns"
                  /\ pc' = "editor"
                  /\ UNCHANGED <<courses, last_loaded_hash>>
             ELSE /\ courses' = AsTypeBool(read_csv(file))
                  /\ UNCHANGED last_loaded_hash
                  /\ message' = "Loaded!"
                  /\ pc' = "upload"
        ELSE /\ message' = "none"
             /\ pc' = "editor"
             /\ UNCHANGED <<courses, last_loaded_hash>>
  /\ UNCHANGED <<uploader_id, uploaded_file, editor, shown>>

UploadStep ==
  /\ pc = "upload"
  /\ LET file == CurrentFile
         file_fingerprint == Fingerprint(file)
     IN IF file # NoFile /\ last_loaded_hash # file_fingerprint
        THEN IF ReadCsvRaises(file)
             THEN /\ message' = "Error"
                  /\ pc' = "editor"
                  /\ UNCHANGED <<courses, last_loaded_hash>>
             ELSE IF ~ (REQUIRED_COLUMNS \subseteq Range(read_csv(file).cols))
             THEN /\ message' = "Invalid File! Missing columns"
                  /\ pc' = "editor"
                  /\ UNCHANGED <<courses, last_loaded_hash>>
             ELSE \* loaded, st.rerun()
                  /\ courses' = AsTypeBool(read_csv(file))
                  /\ last_loaded_hash' = file_fingerprint
                  /\ message' = "Loaded!"
                  /\ pc' = "upload"
        ELSE /\ message' = "none"
             /\ pc' = "editor"
             /\ UNCHANGED <<courses, last_loaded_hash>>
  /\ UNCHANGED <<uploader_id, uploaded_file, editor, shown>>

\* ------------------------------------------ section 6: the table editor

ApplyEdit(df, e) ==
  CASE e.t = "none" -> df
    [] e.t = "del" ->
         [cols |-> df.cols,
          rows |-> SubSeq(df.rows, 1, e.i - 1) \o SubSeq(df.rows, e.i + 1, Len(df.rows))]
    [] e.t = "set" ->
         [cols |-> df.cols,
          rows |-> [df.rows EXCEPT ![e.i] = [@ EXCEPT ![e.col] = e.v]]]

\* Mutant: the write-back ends the pass (st.stop()) instead of starting a new one.
EditorStepStops ==
  /\ pc = "editor"
  /\ LET edited_df == ApplyEdit(courses, editor)
     IN IF edited_df # courses
        THEN /\ courses' = edited_df
             /\ pc' = "idle"
        ELSE /\ pc' = "analytics"
             /\ UNCHANGED courses
  /\ editor' = NoEdit
  /\ UNCHANGED <<last_loaded_hash, uploader_id, uploaded_file, message, shown>>

EditorStep ==
  /\ pc = "editor"
  /\ LET edited_df == ApplyEdit(courses, editor)
     IN IF edited_df # courses
        THEN \* write back, st.rerun()
             /\ courses' = edited_df
             /\ pc' = "upload"
        ELSE /\ pc' = "analytics"
             /\ UNCHANGED courses
  /\ editor' = NoEdit
  /\ UNCHANGED <<last_loaded_hash, uploader_id, uploaded_file, message, shown>>

Next ==
  \/ ClickAdd
  \/ ClickReset
  \/ SelectFile
  \/ RemoveFile
  \/ TableEdit
  \/ UploadStep
  \/ EditorStep
  \/ Analytics

Spec == Init /\ [][Next]_vars

\* ------------------------------------------- the aggregation on its own

\* One grade for every grade-point value, a non-grade-point marker, and "Z",
\* a grade that is no key of grade_map (a file can carry it).  Negative
\* credits enter through a file or the table editor.
AggSemesters == {1, 99}
AggGrades == {"A", "A-", "B+", "B", "B-", "C", "D+", "F", "CS", "Z"}
AggCredits == {-4, 0, 4}

AggRow ==
  {[Course |-> Str("CS1010"), Semester |-> Num(s), Grade |-> Str(g),
    Credits |-> Num(c), SU_Opt_Out |-> Bool(b)] :
     s \in AggSemesters, g \in AggGrades, c \in AggCredits, b \in BOOLEAN}

InitAgg ==
  /\ \E n \in 0 .. MaxAggRows : \E l \in [1 .. n -> AggRow] :
        courses = [cols |-> FiveColumns, rows |-> l]
  /\ last_loaded_hash = [t |-> "absent"]
  /\ uploader_id = 0
  /\ uploaded_file = [key |-> 0, file |-> NoFile]
  /\ editor = NoEdit
  /\ pc = "analytics"
  /\ message = "none"
  /\ shown = [kind |-> "blank"]

SpecAgg == InitAgg /\ [][Analytics]_vars

\* --------------------------------------------------------------- properties

RECURSIVE SumSet(_, _)
SumSet(S, f) ==
  IF S = {} THEN 0
  ELSE LET x == CHOOSE y \in S : TRUE
       IN f[x] + SumSet(S \ {x}, f)

\* A pass has finished and put a report on screen.
Rendered == pc = "idle" /\ shown.kind = "report"

LedgerRows == courses.rows

IsMarker(r) == r.Grade.k = "str" /\ r.Grade.s \in {"CS", "CU", "IP"}

KnownGrade(r) == r.Grade.k = "str" /\ r.Grade.s \in DOMAIN grade_map

\* The doubled grade point of a row, 0 for a grade outside the enumeration.
PointOf(r) == IF KnownGrade(r) THEN grade_map[r.Grade.s] ELSE 0

CreditBearing(sem) ==
  {j \in DOMAIN LedgerRows :
     /\ LedgerRows[j].Semester.n = sem
     /\ ~ LedgerRows[j].SU_Opt_Out.b
     /\ ~ IsMarker(LedgerRows[j])}

CreditsOf == [j \in DOMAIN LedgerRows |-> LedgerRows[j].Credits.n]

PointsOf == [j \in DOMAIN LedgerRows |-> LedgerRows[j].Credits.n * PointOf(LedgerRows[j])]

\* g is points / credits, or 0 when credits is 0.
IsQuotientOrZero(g, points, credits) ==
  IF credits = 0 THEN g.k = "fin" /\ g.n = 0
  ELSE g = [k |-> "fin", n |-> points, d |-> credits]

\* C1: every term of the ledger has a summary whose credit-bearing credits
\* and quality points are the sums over the term's rows that are neither
\* opted out nor CS, CU or IP, and whose term GPA is their quotient, or 0
\* when the credits are 0.
C1_TermSummary ==
  Rendered =>
    /\ {shown.summary[i].Semester : i \in DOMAIN shown.summary}
         = {LedgerRows[j].Semester.n : j \in DOMAIN LedgerRows}
    /\ \A i \in DOMAIN shown.summary :
         LET t == shown.summary[i]
             credits == SumSet(CreditBearing(t.Semester), CreditsOf)
             points == SumSet(CreditBearing(t.Semester), PointsOf)
         IN /\ t.TermCredits = credits
            /\ t.TermPoints = points
            /\ IsQuotientOrZero(t.SemGPA, points, credits)

\* C2: the summaries are one per distinct term in ascending term code, the
\* cumulative credits and points of the k-th are the sums of the first k
\* terms' credits and points, and the cumulative GPA is their quotient, or 0
\* when the cumulative credits are 0.
C2_Cumulative ==
  Rendered =>
    LET s == shown.summary
        termCredits == [i \in DOMAIN s |-> s[i].TermCredits]
        termPoints == [i \in DOMAIN s |-> s[i].TermPoints]
    IN /\ \A i \in DOMAIN s : \A j \in DOMAIN s : i < j => s[i].Semester < s[j].Semester
       /\ {s[i].Semester : i \in DOMAIN s}
            = {LedgerRows[j].Semester.n : j \in DOMAIN LedgerRows}
       /\ \A k \in DOMAIN s :
            /\ s[k].CumCredits = SumSet(1 .. k, termCredits)
            /\ s[k].CumPoints = SumSet(1 .. k, termPoints)
            /\ IsQuotientOrZero(s[k].CumulativeGPA, s[k].CumPoints, s[k].CumCredits)

\* The value of g is at least t2 / 2.
ValueAtLeast(g, t2) ==
  \/ g.k = "inf"
  \/ g.k = "fin" /\ g.d > 0 /\ g.n >= t2 * g.d
  \/ g.k = "fin" /\ g.d < 0 /\ g.n <= t2 * g.d

\* The threshold table, doubled: 4.5, 4.0, 3.5, 3.0, 2.0.
HonoursTable ==
  << <<9, "First Class Honours">>, <<8, "Second Class (Upper)">>,
     <<7, "Second Class (Lower)">>, <<6, "Third Class">>, <<4, "Pass">> >>

C4_RowsValid ==
  \A j \in DOMAIN LedgerRows :
    /\ LedgerRows[j].Credits.n >= 0
    /\ KnownGrade(LedgerRows[j])

MissingColumn(f) == \E c \in Range(FiveColumns) : c \notin Range(f.header)

\* The upload section's step for C5, by the header of the selected file.
C5_Step ==
  /\ (pc = "upload" /\ CurrentFile # NoFile /\ MissingColumn(CurrentFile)
        /\ last_loaded_hash # Fingerprint(CurrentFile))
       => /\ courses' = courses
          /\ message' \in {"Invalid File! Missing columns", "Error"}
  /\ (pc = "upload" /\ CurrentFile # NoFile /\ ~ MissingColumn(CurrentFile)
        /\ last_loaded_hash # Fingerprint(CurrentFile))
       => /\ courses'.cols = CurrentFile.header
          /\ Len(courses'.rows) = Len(CurrentFile.lines)
          /\ message' = "Loaded!"

\* C5: a pass over a file that lacks one of the five columns reports an
\* error and leaves the ledger as it was; a pass over a not yet loaded file
\* with the five columns, extra ones or not, loads its columns and lines.
C5_MissingColumnsRejected == [][C5_Step]_vars

\* C5: the file without Credits is selected, a pass over it has finished
\* with the error, and the ledger still holds its row.
C5_Witness ==
  /\ pc = "idle"
  /\ CurrentFile = CsvNoCredits
  /\ message = "Invalid File! Missing columns"
  /\ LedgerRows # <<>>

FiveOf(df) ==
  [i \in DOMAIN df.rows |-> [c \in Range(FiveColumns) |-> df.rows[i][c]]]

\* C6: loading the export of a non-empty ledger gives the ledger back, row
\* for row, on the five columns.
C6_RoundTrip ==
  LedgerRows # <<>> => FiveOf(AsTypeBool(read_csv(to_csv(courses)))) = FiveOf(courses)

\* The display grade of a row as the distribution should count it.
DisplayGrade(r) ==
  IF r.SU_Opt_Out.b THEN (IF PointOf(r) >= 4 THEN "CS" ELSE "CU") ELSE r.Grade.s

\* C7: the tally counts every row once under its display grade, and the
\* opted-out rows add no credits and no points to the cumulative totals.
C7_Distribution ==
  Rendered =>
    LET shownGrades == {DisplayGrade(LedgerRows[j]) : j \in DOMAIN LedgerRows}
        counted == [j \in DOMAIN LedgerRows |->
                      IF LedgerRows[j].SU_Opt_Out.b \/ IsMarker(LedgerRows[j]) THEN 0
                      ELSE LedgerRows[j].Credits.n]
        pointed == [j \in DOMAIN LedgerRows |->
                      IF LedgerRows[j].SU_Opt_Out.b THEN 0
                      ELSE LedgerRows[j].Credits.n * PointOf(LedgerRows[j])]
        last == shown.summary[Len(shown.summary)]
    IN /\ DOMAIN shown.dist = {Str(g) : g \in shownGrades}
       /\ \A g \in shownGrades :
            shown.dist[Str(g)]
              = Cardinality({j \in DOMAIN LedgerRows : DisplayGrade(LedgerRows[j]) = g})
       /\ SumSet(DOMAIN shown.dist, shown.dist) = Len(LedgerRows)
       /\ last.CumCredits = SumSet(DOMAIN LedgerRows, counted)
       /\ last.CumPoints = SumSet(DOMAIN LedgerRows, pointed)

\* C7: an opted-out A is the only row: it is tallied as CS and the term has
\* no credits and no points.
C7_Witness ==
  /\ Rendered
  /\ Len(LedgerRows) = 1
  /\ LedgerRows[1].SU_Opt_Out.b
  /\ LedgerRows[1].Grade = Str("A")
  /\ LedgerRows[1].Credits.n > 0
  /\ shown.dist = [g \in {Str("CS")} |-> 1]
  /\ shown.summary[1].TermCredits = 0
  /\ shown.summary[1].TermPoints = 0

KnownCreditBearing(sem) == {j \in CreditBearing(sem) : KnownGrade(LedgerRows[j])}

\* C8: a row whose grade is outside the enumeration counts 0 points and its
\* credits are in neither its term's credits nor the cumulative credits.
C8_UnknownGradeExcluded ==
  Rendered =>
    \A i \in DOMAIN shown.summary :
      LET s == shown.summary
          known == UNION {KnownCreditBearing(s[k].Semester) : k \in 1 .. i}
      IN /\ s[i].TermCredits = SumSet(KnownCreditBearing(s[i].Semester), CreditsOf)
         /\ s[i].TermPoints = SumSet(KnownCreditBearing(s[i].Semester), PointsOf)
         /\ s[i].CumCredits = SumSet(known, CreditsOf)

C10_Recorded ==
  (pc # "upload" /\ CurrentFile # NoFile /\ ~ MissingColumn(CurrentFile))
    => last_loaded_hash = Fingerprint(CurrentFile)

\* C10, step by step: the upload section leaves the ledger alone when the
\* selected file's fingerprint is the recorded one; loading records the
\* fingerprint and a rejected file records none; the recorded fingerprint
\* stays while the file stays selected; reset clears it.
C10_Step ==
  /\ (pc = "upload" /\ CurrentFile # NoFile /\ last_loaded_hash = Fingerprint(CurrentFile))
       => courses' = courses /\ last_loaded_hash' = last_loaded_hash
  /\ (pc = "upload" /\ CurrentFile # NoFile /\ ~ MissingColumn(CurrentFile))
       => last_loaded_hash' = Fingerprint(CurrentFile)
  /\ (pc = "upload" /\ CurrentFile # NoFile /\ MissingColumn(CurrentFile))
       => last_loaded_hash' = last_loaded_hash
  /\ (uploader_id' = uploader_id /\ uploaded_file' = uploaded_file
        /\ CurrentFile # NoFile /\ last_loaded_hash = Fingerprint(CurrentFile))
       => last_loaded_hash' = last_loaded_hash
  /\ (uploader_id' # uploader_id) => last_loaded_hash' = [t |-> "None"]

\* C10: an uploaded file replaces the ledger at most once while it stays
\* selected.
C10_LoadedOnce == [] C10_Recorded /\ [][C10_Step]_vars

\* C10: the history file is loaded and still selected, a row was added
\* after the import, and the finished pass kept it.
C10_Witness ==
  /\ pc = "idle"
  /\ CurrentFile = CsvHistory
  /\ last_loaded_hash = Fingerprint(CsvHistory)
  /\ \E j \in DOMAIN LedgerRows : LedgerRows[j].Semester.n = 99
  /\ shown.kind = "report"
  /\ Len(shown.summary) = 2

====
